---- MODULE Spec2Model ----
(***************************************************************************)
(* A model of the expression-language front end of cmpsc-470-final:        *)
(*   src/src/parse.rs   Exp, ParseError, TryFrom<&str>, parse, parse_list  *)
(*   src/src/interp.rs  Value, InterpError, the numeric helpers, interp    *)
(* The reader (the sexp crate) is outside the repository: its result, a    *)
(* Sexp value or a reader error, is an input of the model.                 *)
(***************************************************************************)
EXTENDS Integers, Sequences, FiniteSets, TLC

(***************************************************************************)
(* Bounds of the model.                                                    *)
(***************************************************************************)
\* i64 is modelled as a two's-complement integer of IntBits bits.
IntBits == 4
\* A generated list holds an operator and at most MaxArgs operands.
MaxArgs == 3

VARIABLES
    overflow_checks,  \* build profile: are arithmetic overflow checks compiled in
    pc,               \* "start", "parsed" (Exp::try_from returned), "done" (interp returned)
    item,             \* what the reader made of the text: a Sexp, or a reader error
    ast,              \* Result<Exp, ParseError> of Exp::try_from
    env,              \* the Env handed to interp (as it is after the call, once pc = "done")
    env0,             \* the Env as it was when interp was called
    result,           \* Result<Value, InterpError> of interp, or a panic
    stdout            \* what print! has written, in order

vars == <<overflow_checks, pc, item, ast, env, env0, result, stdout>>

(***************************************************************************)
(* i64 (src/src/parse.rs:8, src/src/interp.rs:12), scaled to IntBits bits. *)
(***************************************************************************)
Pow2(n) == 2 ^ n
MinInt == -Pow2(IntBits - 1)
MaxInt == Pow2(IntBits - 1) - 1
I64 == MinInt..MaxInt
InI64(x) == MinInt <= x /\ x <= MaxInt
\* Two's-complement wrap-around of a mathematical result.
Wrap(x) == ((x - MinInt) % Pow2(IntBits)) + MinInt
Abs(x) == IF x < 0 THEN -x ELSE x
\* Rust's integer `/`: the quotient truncated toward zero.
TruncDiv(a, b) ==
    IF (a < 0) = (b < 0) THEN Abs(a) \div Abs(b) ELSE -(Abs(a) \div Abs(b))

(***************************************************************************)
(* f64, modelled as an exact rational <<numerator, denominator>> in lowest *)
(* terms with a positive denominator.  Rounding, infinities and NaN are    *)
(* not modelled.                                                           *)
(***************************************************************************)
RECURSIVE Gcd(_, _)
Gcd(a, b) == IF b = 0 THEN a ELSE Gcd(b, a % b)
Norm(n, d) ==
    LET s == IF d < 0 THEN -1 ELSE 1
        g == Gcd(Abs(n), Abs(d))
    IN  <<(s * n) \div g, (s * d) \div g>>
FZero == <<0, 1>>
FAdd(a, b) == Norm(a[1] * b[2] + b[1] * a[2], a[2] * b[2])
FSub(a, b) == Norm(a[1] * b[2] - b[1] * a[2], a[2] * b[2])
FMul(a, b) == Norm(a[1] * b[1], a[2] * b[2])
FDiv(a, b) == Norm(a[1] * b[2], a[2] * b[1])
FLt(a, b) == a[1] * b[2] < b[1] * a[2]
FLe(a, b) == a[1] * b[2] <= b[1] * a[2]

(***************************************************************************)
(* Sexp of the sexp crate, as parse.rs matches on it.                      *)
(***************************************************************************)
AtomI(i) == [t |-> "I", ai |-> i]
AtomF(f) == [t |-> "F", af |-> f]
AtomS(s) == [t |-> "S", as |-> s]
List(l) == [t |-> "List", l |-> l]

(***************************************************************************)
(* enum Exp.                                                               *)
(***************************************************************************)
ExpInt(i) == [k |-> "Int", i |-> i]
ExpFloat(f) == [k |-> "Float", f |-> f]
ExpBool(b) == [k |-> "Bool", b |-> b]
Id(s) == [k |-> "Id", s |-> s]
\* Add, Sub, Mult, Div, Eq, Gt, Ge, Lt, Le and Set: { lhs, rhs }
Binary(kind, lhs, rhs) == [k |-> kind, lhs |-> lhs, rhs |-> rhs]
\* Ref, MutRef, Box, Unbox, Deref, Display, Debug: one boxed Exp
Unary(kind, e) == [k |-> kind, e |-> e]
Lambda(symbol, body) == [k |-> "Lambda", symbol |-> symbol, body |-> body]
App(func, arg) == [k |-> "App", func |-> func, arg |-> arg]
If(cond, lhs, rhs) == [k |-> "If", cond |-> cond, lhs |-> lhs, rhs |-> rhs]
Begin(es) == [k |-> "Begin", es |-> es]


(***************************************************************************)
(* enum ParseError, and Result<Exp, ParseError>.                           *)
(***************************************************************************)
ParseError_NotImplemented == [perr |-> "NotImplemented"]
ParseError_ParseError == [perr |-> "ParseError"]
ParseError_SexpError == [perr |-> "SexpError"]
POk(e) == [tag |-> "Ok", exp |-> e]
PErr(e) == [tag |-> "Err", err |-> e]

(***************************************************************************)
(* parse and parse_list.                                                   *)
(***************************************************************************)
\* The node each two-operand operator symbol builds (the arms of parse_list
\* guarded by `func == "..."` over [lhs, rhs]).
BinarySymbol(func) ==
    CASE func = "+" -> "Add"
      [] func = "-" -> "Sub"
      [] func = "*" -> "Mult"
      [] func = "/" -> "Div"
      [] func = "=" -> "Eq"
      [] func = "<" -> "Lt"
      [] func = ">" -> "Gt"
      [] func = "<=" -> "Le"
      [] func = ">=" -> "Ge"
      [] func = "set" -> "Set"
      [] OTHER -> "None"
\* The node each one-operand operator symbol builds (the arms over [exp]).
UnarySymbol(func) ==
    CASE func = "ref" -> "Ref"
      [] func = "mut-ref" -> "MutRef"
      [] func = "box" -> "Box"
      [] func = "unbox" -> "Unbox"
      [] func = "deref" -> "Deref"
      [] func = "display" -> "Display"
      [] func = "debug" -> "Debug"
      [] OTHER -> "None"

\* BinaryArm with the two operands stored the other way round.
BinaryArmSwapped(kind, pl, pr) ==
    IF pl.tag # "Ok" THEN pl
    ELSE IF pr.tag # "Ok" THEN pr
    ELSE POk(Binary(kind, pr.exp, pl.exp))
\* `Ok(X { lhs: Box::new(parse(lhs)?), rhs: Box::new(parse(rhs)?) })`, given
\* the two parse results: the first error, lhs before rhs, or the node.
BinaryArm(kind, pl, pr) ==
    IF pl.tag # "Ok" THEN pl
    ELSE IF pr.tag # "Ok" THEN pr
    ELSE POk(Binary(kind, pl.exp, pr.exp))
\* `Ok(X(Box::new(parse(exp)?)))`
UnaryArm(kind, pe) ==
    IF pe.tag # "Ok" THEN pe ELSE POk(Unary(kind, pe.exp))
\* `Ok(If { cond: parse(cond)?, lhs: parse(lhs)?, rhs: parse(rhs)? })`
IfArm(pc_, pl, pr) ==
    IF pc_.tag # "Ok" THEN pc_
    ELSE IF pl.tag # "Ok" THEN pl
    ELSE IF pr.tag # "Ok" THEN pr
    ELSE POk(If(pc_.exp, pl.exp, pr.exp))
\* `Ok(App { func: parse(func_exp)?, arg: parse(arg)? })`
AppArm(pf, pa) ==
    IF pf.tag # "Ok" THEN pf
    ELSE IF pa.tag # "Ok" THEN pa
    ELSE POk(App(pf.exp, pa.exp))
\* `rest.iter().map(parse).collect::<Result<Vec<Exp>, _>>()`: the first
\* error in order, or all the expressions.
RECURSIVE Collect(_)
Collect(ps) ==
    IF Len(ps) = 0 THEN POk(<<>>)
    ELSE IF Head(ps).tag # "Ok" THEN Head(ps)
    ELSE LET rest == Collect(Tail(ps))
         IN  IF rest.tag # "Ok" THEN rest ELSE POk(<<Head(ps).exp>> \o rest.exp)

IsS(s) == s.t = "S"

RECURSIVE parse(_)
RECURSIVE parse_list(_)
parse(s_exp) ==
    CASE s_exp.t = "I" -> POk(ExpInt(s_exp.ai))
      [] s_exp.t = "F" -> POk(ExpFloat(s_exp.af))
      [] s_exp.t = "S" /\ s_exp.as = "true" -> POk(ExpBool(TRUE))
      [] s_exp.t = "S" /\ s_exp.as = "false" -> POk(ExpBool(FALSE))
      [] s_exp.t = "S" /\ s_exp.as \notin {"true", "false"} -> POk(Id(s_exp.as))
      [] s_exp.t = "List" -> parse_list(s_exp.l)

parse_list(list) ==
    IF Len(list) = 0 THEN PErr(ParseError_NotImplemented)
    ELSE
    LET first == list[1]
        rest == Tail(list)
        n == Len(rest)
        func == IF IsS(first) THEN first.as ELSE "None"
    IN  IF IsS(first) /\ n = 2 /\ BinarySymbol(func) \notin {"None", "Set"}
        THEN BinaryArm(BinarySymbol(func), parse(rest[1]), parse(rest[2]))
        ELSE IF IsS(first) /\ func = "begin"
        THEN LET parsed_exprs == Collect([j \in 1..n |-> parse(rest[j])])
             IN  IF parsed_exprs.tag # "Ok" THEN parsed_exprs
                 ELSE POk(Begin(parsed_exprs.exp))
        ELSE IF IsS(first) /\ n = 2 /\ IsS(rest[1]) /\ func = "lambda"
        THEN LET body == parse(rest[2])
             IN  IF body.tag # "Ok" THEN body
                 ELSE POk(Lambda(rest[1].as, body.exp))
        ELSE IF IsS(first) /\ n = 1 /\ UnarySymbol(func) # "None"
        THEN UnaryArm(UnarySymbol(func), parse(rest[1]))
        ELSE IF IsS(first) /\ n = 2 /\ func = "set"
        THEN BinaryArm("Set", parse(rest[1]), parse(rest[2]))
        ELSE IF n = 1 /\ Len(list) = 2
        THEN AppArm(parse(first), parse(rest[1]))
        ELSE IF IsS(first) /\ n = 3 /\ func = "if"
        THEN IfArm(parse(rest[1]), parse(rest[2]), parse(rest[3]))
        ELSE PErr(ParseError_ParseError)

(***************************************************************************)
(* enum Value, type Env, enum InterpError.                                 *)
(***************************************************************************)
VInt(i) == [k |-> "Int", i |-> i]
VFloat(f) == [k |-> "Float", f |-> f]
VBool(b) == [k |-> "Bool", b |-> b]
Closure(arg, body, cenv) == [k |-> "Closure", arg |-> arg, body |-> body, env |-> cenv]
VBox(loc) == [k |-> "Box", loc |-> loc]
VRef(v) == [k |-> "Ref", v |-> v]
VMutRef(v) == [k |-> "MutRef", v |-> v]
Moved == [k |-> "Moved"]

\* Env = HashMap<String, Value>: a set of <<name, value>> entries, at most
\* one per name.  EnvGet is `env.get(&s)`.
EnvGet(e, s) ==
    IF \E p \in e : p[1] = s
    THEN [some |-> TRUE, v |-> (CHOOSE p \in e : p[1] = s)[2]]
    ELSE [some |-> FALSE]

NotImplemented(what) == [ierr |-> "NotImplemented", what |-> what]
NotANumber == [ierr |-> "NotANumber"]
IncompatibleTypes == [ierr |-> "IncompatibleTypes"]
ConditionNotBoolean == [ierr |-> "ConditionNotBoolean"]
BranchTypeMismatch == [ierr |-> "BranchTypeMismatch"]
DivisionByZero == [ierr |-> "DivisionByZero"]
CantDisplay == [ierr |-> "CantDisplay"]
SymbolNotFound(s) == [ierr |-> "SymbolNotFound", sym |-> s]

\* Result<Value, InterpError>, and the third outcome of a call: a panic,
\* which unwinds through every caller.
Ok(v) == [tag |-> "Ok", val |-> v]
Err(e) == [tag |-> "Err", err |-> e]
Panic(msg) == [tag |-> "Panic", msg |-> msg]

(***************************************************************************)
(* The integer closures handed to apply_numeric_op.  `a + b`, `a - b` and  *)
(* `a * b` on i64 panic on overflow when overflow checks are compiled in   *)
(* (the debug profile) and wrap around otherwise (the release profile).    *)
(***************************************************************************)
Arith(x) ==
    IF InI64(x) THEN Ok(VInt(x))
    ELSE IF overflow_checks THEN Panic("arithmetic overflow")
    ELSE Ok(VInt(Wrap(x)))
IntAdd(a, b) == Arith(a + b)
IntSub(a, b) == Arith(a - b)
IntMult(a, b) == Arith(a * b)
FloatAdd(a, b) == Ok(VFloat(FAdd(a, b)))
FloatSub(a, b) == Ok(VFloat(FSub(a, b)))
FloatMult(a, b) == Ok(VFloat(FMul(a, b)))
IntGt(a, b) == a > b
IntGe(a, b) == a >= b
IntLt(a, b) == a < b
IntLe(a, b) == a <= b
FloatGt(a, b) == FLt(b, a)
FloatGe(a, b) == FLe(b, a)
FloatLt(a, b) == FLt(a, b)
FloatLe(a, b) == FLe(a, b)

\* The closures an arm of interp passes as int_op and float_op, named by a
\* tuple: <<kind>> for the arithmetic closures of the Add, Sub and Mult
\* arms, <<"Bool", kind>> for a comparison closure of the Gt, Ge, Lt or Le
\* arm as apply_comparison wraps it, `|a, b| Value::Bool(int_op(a, b))`.
int_op(fn, a, b) ==
    CASE fn = <<"Add">> -> IntAdd(a, b)
      [] fn = <<"Sub">> -> IntSub(a, b)
      [] fn = <<"Mult">> -> IntMult(a, b)
      [] fn = <<"Bool", "Gt">> -> Ok(VBool(IntGt(a, b)))
      [] fn = <<"Bool", "Ge">> -> Ok(VBool(IntGe(a, b)))
      [] fn = <<"Bool", "Lt">> -> Ok(VBool(IntLt(a, b)))
      [] fn = <<"Bool", "Le">> -> Ok(VBool(IntLe(a, b)))
float_op(fn, a, b) ==
    CASE fn = <<"Add">> -> FloatAdd(a, b)
      [] fn = <<"Sub">> -> FloatSub(a, b)
      [] fn = <<"Mult">> -> FloatMult(a, b)
      [] fn = <<"Bool", "Gt">> -> Ok(VBool(FloatGt(a, b)))
      [] fn = <<"Bool", "Ge">> -> Ok(VBool(FloatGe(a, b)))
      [] fn = <<"Bool", "Lt">> -> Ok(VBool(FloatLt(a, b)))
      [] fn = <<"Bool", "Le">> -> Ok(VBool(FloatLe(a, b)))

\* apply_numeric_op without its mixed Int/Float arm.
apply_numeric_op_NoMixedArm(lhs, rhs, fn) ==
    CASE lhs.k = "Int" /\ rhs.k = "Int" -> int_op(fn, lhs.i, rhs.i)
      [] lhs.k = "Float" /\ rhs.k = "Float" -> float_op(fn, lhs.f, rhs.f)
      [] OTHER -> Err(NotANumber)
apply_numeric_op(lhs, rhs, fn) ==
    CASE lhs.k = "Int" /\ rhs.k = "Int" -> int_op(fn, lhs.i, rhs.i)
      [] lhs.k = "Float" /\ rhs.k = "Float" -> float_op(fn, lhs.f, rhs.f)
      [] (lhs.k = "Int" /\ rhs.k = "Float") \/ (lhs.k = "Float" /\ rhs.k = "Int")
            -> Err(IncompatibleTypes)
      [] OTHER -> Err(NotANumber)

apply_comparison(lhs, rhs, cmp) == apply_numeric_op(lhs, rhs, <<"Bool", cmp>>)

\* `a / b` on i64 with b # 0: it panics ("attempt to divide with overflow")
\* for i64::MIN / -1 in every build profile, and truncates otherwise.
IntDiv(a, b) ==
    IF a = MinInt /\ b = -1 THEN Panic("attempt to divide with overflow")
    ELSE Ok(VInt(TruncDiv(a, b)))

div(lhs, rhs) ==
    CASE lhs.k = "Int" /\ rhs.k = "Int" ->
            IF rhs.i = 0 THEN Err(DivisionByZero) ELSE IntDiv(lhs.i, rhs.i)
      [] lhs.k = "Float" /\ rhs.k = "Float" ->
            IF rhs.f = FZero THEN Err(DivisionByZero)
            ELSE Ok(VFloat(FDiv(lhs.f, rhs.f)))
      [] (lhs.k = "Int" /\ rhs.k = "Float") \/ (lhs.k = "Float" /\ rhs.k = "Int")
            -> Err(IncompatibleTypes)
      [] OTHER -> Err(NotANumber)

\* eq dispatching like the other comparisons.
eq_Numeric(lhs, rhs) ==
    CASE lhs.k = "Int" /\ rhs.k = "Int" -> Ok(VBool(lhs.i = rhs.i))
      [] lhs.k = "Float" /\ rhs.k = "Float" -> Ok(VBool(lhs.f = rhs.f))
      [] (lhs.k = "Int" /\ rhs.k = "Float") \/ (lhs.k = "Float" /\ rhs.k = "Int")
            -> Err(IncompatibleTypes)
      [] OTHER -> Err(NotANumber)
eq(lhs, rhs) ==
    CASE lhs.k = "Int" /\ rhs.k = "Int" -> Ok(VBool(lhs.i = rhs.i))
      [] OTHER -> Err(NotANumber)

\* check_same_type without its (Bool, Bool) arm.
check_same_type_NoBool(v1, v2) ==
    \/ v1.k = "Int" /\ v2.k = "Int"
    \/ v1.k = "Float" /\ v2.k = "Float"
    \/ v1.k = "Box" /\ v2.k = "Box"
    \/ v1.k = "Ref" /\ v2.k = "Ref"
    \/ v1.k = "MutRef" /\ v2.k = "MutRef"
\* check_same_type taking Int and Float for one numeric family.
check_same_type_Numeric(v1, v2) ==
    \/ v1.k \in {"Int", "Float"} /\ v2.k \in {"Int", "Float"}
    \/ v1.k = "Bool" /\ v2.k = "Bool"
    \/ v1.k = "Box" /\ v2.k = "Box"
    \/ v1.k = "Ref" /\ v2.k = "Ref"
    \/ v1.k = "MutRef" /\ v2.k = "MutRef"
check_same_type(v1, v2) ==
    \/ v1.k = "Int" /\ v2.k = "Int"
    \/ v1.k = "Float" /\ v2.k = "Float"
    \/ v1.k = "Bool" /\ v2.k = "Bool"
    \/ v1.k = "Box" /\ v2.k = "Box"
    \/ v1.k = "Ref" /\ v2.k = "Ref"
    \/ v1.k = "MutRef" /\ v2.k = "MutRef"

(***************************************************************************)
(* interp.  A call returns [res, out, env]: its outcome, what it printed,  *)
(* in order, and the Env behind `env: &mut Env` as the call leaves it.     *)
(***************************************************************************)
Ret(res, out, e) == [res |-> res, out |-> out, env |-> e]
\* What print!("{:?}", v) and print!("{}", x) write.
DebugFmt(v) == [fmt |-> "{:?}", v |-> v]
DisplayFmt(v) == [fmt |-> "{}", v |-> v]

\* The stub arms of interp: the variant's name in NotImplemented.
Stub(kind) == Err(NotImplemented(kind))

\* The operator a two-operand node applies to its operand values.
BinaryOp(kind, l, r) ==
    CASE kind \in {"Add", "Sub", "Mult"} -> apply_numeric_op(l, r, <<kind>>)
      [] kind = "Div" -> div(l, r)
      [] kind = "Eq" -> eq(l, r)
      [] kind \in {"Gt", "Ge", "Lt", "Le"} -> apply_comparison(l, r, kind)

\* The tail of the If arm, once the condition is Bool(test) and both
\* branches have values.
IfSelect(test, lhs_val, rhs_val) ==
    IF ~check_same_type(lhs_val, rhs_val) THEN Err(BranchTypeMismatch)
    ELSE Ok(IF test THEN lhs_val ELSE rhs_val)

\* EvalBinary with rhs evaluated, and checked, before lhs.
EvalBinary_RightFirst(kind, l, r) ==
    IF r.res.tag # "Ok" THEN r
    ELSE IF l.res.tag # "Ok" THEN Ret(l.res, r.out \o l.out, l.env)
    ELSE Ret(BinaryOp(kind, l.res.val, r.res.val), r.out \o l.out, l.env)
\* A two-operand arm, given what evaluating lhs returned (l) and what
\* evaluating rhs after it returned (r): `op(interp(*lhs, env)?,
\* interp(*rhs, env)?)`.  A failing lhs returns at its `?`, before rhs runs.
EvalBinary(kind, l, r) ==
    IF l.res.tag # "Ok" THEN l
    ELSE IF r.res.tag # "Ok" THEN Ret(r.res, l.out \o r.out, r.env)
    ELSE Ret(BinaryOp(kind, l.res.val, r.res.val), l.out \o r.out, r.env)

\* EvalIf evaluating only the branch the condition selects.
EvalIf_SelectedOnly(c, l, r) ==
    IF c.res.tag # "Ok" THEN c
    ELSE IF c.res.val.k # "Bool" THEN Ret(Err(ConditionNotBoolean), c.out, c.env)
    ELSE IF c.res.val.b THEN Ret(l.res, c.out \o l.out, l.env)
    ELSE Ret(r.res, c.out \o r.out, r.env)
\* The If arm, given what evaluating cond (c), then lhs (l), then rhs (r)
\* returned.
EvalIf(c, l, r) ==
    IF c.res.tag # "Ok" THEN c
    ELSE IF c.res.val.k # "Bool" THEN Ret(Err(ConditionNotBoolean), c.out, c.env)
    ELSE IF l.res.tag # "Ok" THEN Ret(l.res, c.out \o l.out, l.env)
    ELSE IF r.res.tag # "Ok" THEN Ret(r.res, c.out \o l.out \o r.out, r.env)
    ELSE Ret(IfSelect(c.res.val.b, l.res.val, r.res.val),
             c.out \o l.out \o r.out, r.env)

\* The Id arm taking the value out of the map, `env.remove(&s)`.
LookupId_Remove(s, e) ==
    LET got == EnvGet(e, s)
    IN  IF got.some THEN Ret(Ok(got.v), <<>>, e \ {<<s, got.v>>})
        ELSE Ret(Err(SymbolNotFound(s)), <<>>, e)
\* The Id arm: `env.get(&s).ok_or(SymbolNotFound(s)).map(|v| v.clone())`.
LookupId(s, e) ==
    LET got == EnvGet(e, s)
    IN  IF got.some THEN Ret(Ok(got.v), <<>>, e)
        ELSE Ret(Err(SymbolNotFound(s)), <<>>, e)

RECURSIVE interp(_, _)
interp(exp, e) ==
    CASE exp.k = "Int" -> Ret(Ok(VInt(exp.i)), <<>>, e)
      [] exp.k = "Float" -> Ret(Ok(VFloat(exp.f)), <<>>, e)
      [] exp.k = "Bool" -> Ret(Ok(VBool(exp.b)), <<>>, e)
      [] exp.k \in {"Add", "Sub", "Mult", "Div", "Eq", "Gt", "Ge", "Lt", "Le"} ->
            LET l == interp(exp.lhs, e)
                r == interp(exp.rhs, l.env)
            IN  EvalBinary(exp.k, l, r)
      [] exp.k = "If" ->
            LET c == interp(exp.cond, e)
                l == interp(exp.lhs, c.env)
                r == interp(exp.rhs, l.env)
            IN  EvalIf(c, l, r)
      [] exp.k = "Debug" ->
            LET v == interp(exp.e, e)
            IN  IF v.res.tag # "Ok" THEN v
                ELSE Ret(v.res, Append(v.out, DebugFmt(v.res.val)), v.env)
      [] exp.k = "Display" ->
            LET v == interp(exp.e, e)
            IN  IF v.res.tag # "Ok" THEN v
                ELSE IF v.res.val.k \in {"Int", "Float", "Bool"}
                     THEN Ret(v.res, Append(v.out, DisplayFmt(v.res.val)), v.env)
                     ELSE Ret(Err(CantDisplay), v.out, v.env)
      [] exp.k = "Id" -> LookupId(exp.s, e)
      [] exp.k \in {"Lambda", "App", "Begin", "Ref", "MutRef", "Box", "Unbox",
                    "Deref", "Set"} -> Ret(Stub(exp.k), <<>>, e)

(***************************************************************************)
(* The inputs: the S-expressions the reader hands to parse, and the        *)
(* environments a caller hands to interp.                                  *)
(***************************************************************************)
OperatorSymbols ==
    {"+", "-", "*", "/", "=", "<", ">", "<=", ">=", "begin", "lambda", "ref",
     "mut-ref", "box", "unbox", "deref", "display", "debug", "set", "if", "let"}
BinarySymbols == {"+", "-", "*", "/", "=", "<", ">", "<=", ">="}
Half == <<1, 2>>
Floats == {FZero, Half, <<-2, 1>>}
IntAtoms == {AtomI(i) : i \in I64}
\* Atoms of every kind of value an operand can evaluate to: edge integers,
\* floats, booleans, and identifiers bound (or not) in the environments.
ValueAtoms ==
    {AtomI(i) : i \in {MinInt, -1, 0, 1, MaxInt}}
    \cup {AtomF(f) : f \in Floats}
    \cup {AtomS(s) : s \in {"true", "false", "x", "y", "b", "f", "r", "m"}}
Seqs(S, n) == UNION {[1..j -> S] : j \in 0..n}
L2(a, b) == List(<<a, b>>)
L3(a, b, c) == List(<<a, b, c>>)
L4(a, b, c, d) == List(<<a, b, c, d>>)

\* Every operator (and three non-operators) over 0..MaxArgs operands.
Heads == {AtomS(s) : s \in OperatorSymbols \cup {"f"}}
         \cup {AtomI(1), L3(AtomS("lambda"), AtomS("x"), AtomS("x"))}
Operands == {AtomI(1), AtomS("x"), AtomS("true"), List(<<>>)}
ArityInputs == {List(<<h>> \o args) : h \in Heads, args \in Seqs(Operands, MaxArgs)}
\* Every binary operator over every pair of integers, and over every pair
\* of operand kinds.
ArithInputs ==
    {L3(AtomS(o), a, b) : o \in BinarySymbols, a \in IntAtoms, b \in IntAtoms}
    \cup {L3(AtomS(o), a, b) : o \in BinarySymbols, a \in ValueAtoms, b \in ValueAtoms}
\* Conditionals over every kind of condition and pair of branches.
Conds == {AtomS("true"), AtomS("false"), AtomI(1), AtomS("b"),
          L3(AtomS("="), AtomI(5), AtomI(5)), L3(AtomS("<"), AtomI(2), AtomI(1))}
IfInputs == {L4(AtomS("if"), c, l, r) : c \in Conds, l \in ValueAtoms, r \in ValueAtoms}
\* Nested forms: operands that print, fail or compute.
Nested ==
    {L2(AtomS("display"), AtomI(1)), L2(AtomS("display"), AtomI(2)),
     L2(AtomS("debug"), AtomS("f")), L2(AtomS("display"), AtomS("f")),
     L3(AtomS("/"), AtomI(1), AtomI(0)), L3(AtomS("-"), AtomI(5), AtomI(2)),
     L3(AtomS("="), AtomI(5), AtomI(5)), L2(AtomS("box"), AtomI(5)),
     L2(AtomS("+"), AtomI(1)), AtomS("z"), AtomI(1), AtomI(3), AtomS("true")}
NestedInputs ==
    {L3(AtomS(o), a, b) : o \in BinarySymbols \cup {"set"}, a \in Nested, b \in Nested}
    \cup {L4(AtomS("if"), c, l, r) :
            c \in {AtomS("true"), AtomS("false"), L2(AtomS("display"), AtomS("true")),
                   L2(AtomS("display"), AtomI(1))},
            l \in Nested, r \in Nested}
    \cup {L2(AtomS(o), a) : o \in {"display", "debug", "unbox", "ref", "mut-ref", "deref"},
                            a \in Nested \cup ValueAtoms}
\* (let ((x v)) body), well-formed and malformed.
LetInputs ==
    {L3(AtomS("let"), List(<<L2(AtomS("x"), v)>>), body) :
        v \in Operands \cup Nested, body \in Operands \cup {L3(AtomS("+"), AtomS("x"), AtomI(1))}}
    \cup {L3(AtomS("let"), bad, AtomS("x")) :
        bad \in {List(<<>>), AtomS("x"), List(<<AtomS("x")>>), List(<<L2(AtomI(1), AtomI(1))>>)}}
\* ((lambda x (lambda y (+ x y))) 3) 4
Curried ==
    L2(L2(L3(AtomS("lambda"), AtomS("x"),
             L3(AtomS("lambda"), AtomS("y"), L3(AtomS("+"), AtomS("x"), AtomS("y")))),
          AtomI(3)),
       AtomI(4))
Sexps == ValueAtoms \cup IntAtoms \cup ArityInputs \cup ArithInputs \cup IfInputs
         \cup NestedInputs \cup LetInputs \cup {Curried}

EmptyEnv == {}
Envs ==
    {EmptyEnv,
     {<<"x", VInt(1)>>, <<"b", VBool(TRUE)>>},
     {<<"x", VFloat(Half)>>, <<"y", Moved>>, <<"b", VBox(0)>>,
      <<"f", Closure("a", Id("a"), EmptyEnv)>>, <<"r", VRef(VInt(1))>>,
      <<"m", VMutRef(VInt(1))>>}}

(***************************************************************************)
(* The state machine: Exp::try_from, then interp on the expression.        *)
(***************************************************************************)
None == [tag |-> "None"]
ReaderError == [t |-> "Error"]

Init ==
    /\ overflow_checks \in BOOLEAN
    /\ pc = "start"
    /\ item = None
    /\ ast = None
    /\ env = EmptyEnv
    /\ env0 = EmptyEnv
    /\ result = None
    /\ stdout = <<>>

\* impl TryFrom<&str> for Exp: `parse(sexp::parse(item)?)`, on whatever the
\* reader makes of the text.
TryFrom ==
    /\ pc = "start"
    /\ \E s \in Sexps \cup {ReaderError} :
        /\ item' = s
        /\ ast' = IF s = ReaderError THEN PErr(ParseError_SexpError) ELSE parse(s)
    /\ pc' = "parsed"
    /\ UNCHANGED <<overflow_checks, env, env0, result, stdout>>

\* interp(exp, &mut env) on a parsed expression, under a caller's Env.
Interp ==
    /\ pc = "parsed"
    /\ ast.tag = "Ok"
    /\ \E e \in Envs :
        LET r == interp(ast.exp, e)
        IN  /\ result' = r.res
            /\ stdout' = stdout \o r.out
            /\ env' = r.env
            /\ env0' = e
    /\ pc' = "done"
    /\ UNCHANGED <<overflow_checks, item, ast>>

Next == TryFrom \/ Interp

Spec == Init /\ [][Next]_vars

(***************************************************************************)
(* The claims.                                                             *)
(***************************************************************************)
Parsed == pc # "start"
Done == pc = "done"
IsList(s) == s.t = "List"
\* The symbol heading a non-empty list, or "None".
HeadSymbol(s) ==
    IF IsList(s) /\ Len(s.l) > 0 /\ s.l[1].t = "S" THEN s.l[1].as ELSE "None"
\* q is a / b truncated toward zero: the remainder is smaller than b in
\* magnitude and is zero or has the sign of a.
IsTruncatedQuotient(a, b, q) ==
    \E r \in (1 - Abs(b))..(Abs(b) - 1) :
        /\ a = q * b + r
        /\ (r = 0 \/ (r < 0) = (a < 0))
IsIntDiv == Done /\ ast.exp.k = "Div" /\ ast.exp.lhs.k = "Int" /\ ast.exp.rhs.k = "Int"

\* C1: for all i64 a and b # 0, Div{Int(a), Int(b)} evaluates to Ok(Int(q)),
\* q being a / b truncated toward zero; Div{Int(a), Int(0)} fails with
\* DivisionByZero.
C1_DivTruncates ==
    IsIntDiv =>
        IF ast.exp.rhs.i = 0 THEN result = Err(DivisionByZero)
        ELSE /\ result.tag = "Ok"
             /\ result.val.k = "Int"
             /\ IsTruncatedQuotient(ast.exp.lhs.i, ast.exp.rhs.i, result.val.i)

\* The same with the one pair left out whose quotient is no i64: the code
\* does what C1 says on every other pair.
DivTruncatesInRange ==
    (IsIntDiv /\ ~(ast.exp.lhs.i = MinInt /\ ast.exp.rhs.i = -1)) =>
        IF ast.exp.rhs.i = 0 THEN result = Err(DivisionByZero)
        ELSE /\ result.tag = "Ok"
             /\ result.val.k = "Int"
             /\ IsTruncatedQuotient(ast.exp.lhs.i, ast.exp.rhs.i, result.val.i)

BoxFive == Unary("Box", ExpInt(5))

\* C2: with b = Box(Int(5)), a first MutRef(b) succeeds (and a second one
\* fails with BorrowConflict), and Ref(b) on a free cell succeeds.
C2_BorrowsOfAFreshBoxSucceed ==
    (Done /\ ast.exp \in {Unary("MutRef", BoxFive), Unary("Ref", BoxFive)}) =>
        /\ result.tag = "Ok"
        /\ result.val.k = ast.exp.k

\* The value an Int, Float or Bool literal stands for.
LiteralValue(e) ==
    CASE e.k = "Int" -> VInt(e.i)
      [] e.k = "Float" -> VFloat(e.f)
      [] e.k = "Bool" -> VBool(e.b)
IsIfOnBool == Done /\ ast.exp.k = "If" /\ ast.exp.cond.k = "Bool"

\* C3: for every v of kind Int, Float or Bool and either condition,
\* If{Bool(cond), v, v} evaluates to Ok(v).
C3_IfSameBranches ==
    (/\ IsIfOnBool
     /\ ast.exp.lhs = ast.exp.rhs
     /\ ast.exp.lhs.k \in {"Int", "Float", "Bool"}) =>
        result = Ok(LiteralValue(ast.exp.lhs))
C3_Witness ==
    /\ IsIfOnBool
    /\ ast.exp.cond.b = FALSE
    /\ ast.exp.lhs = ExpBool(TRUE)
    /\ ast.exp.rhs = ExpBool(TRUE)
    /\ result = Ok(VBool(TRUE))

\* C4: an If whose condition is a Bool and whose branches evaluate to values
\* of different variants fails with BranchTypeMismatch, whichever branch the
\* condition selects.
C4_IfBranchTypeMismatch ==
    (Done /\ ast.exp.k = "If") =>
        LET c == interp(ast.exp.cond, env0).res
            l == interp(ast.exp.lhs, env0).res
            r == interp(ast.exp.rhs, env0).res
        IN  (/\ c.tag = "Ok" /\ c.val.k = "Bool"
             /\ l.tag = "Ok" /\ r.tag = "Ok"
             /\ l.val.k # r.val.k) =>
                result = Err(BranchTypeMismatch)
C4_Witness ==
    /\ IsIfOnBool
    /\ ast.exp.cond.b = TRUE
    /\ ast.exp.lhs = ExpInt(1)
    /\ ast.exp.rhs = ExpFloat(Half)
    /\ result = Err(BranchTypeMismatch)

\* The node each two-operand operator symbol stands for.
NodeOf ==
    ("+" :> "Add") @@ ("-" :> "Sub") @@ ("*" :> "Mult") @@ ("/" :> "Div")
    @@ ("=" :> "Eq") @@ ("<" :> "Lt") @@ (">" :> "Gt") @@ ("<=" :> "Le")
    @@ (">=" :> "Ge")
AllParse(ss) == \A j \in DOMAIN ss : parse(ss[j]).tag = "Ok"
IfEqFive == L4(AtomS("if"), L3(AtomS("="), AtomI(5), AtomI(5)), AtomI(1), AtomI(0))
IfEqFiveExp ==
    [k |-> "If",
     cond |-> [k |-> "Eq", lhs |-> [k |-> "Int", i |-> 5], rhs |-> [k |-> "Int", i |-> 5]],
     lhs |-> [k |-> "Int", i |-> 1],
     rhs |-> [k |-> "Int", i |-> 0]]

\* C5: a list of an operator symbol + - * / = < > <= >= and two operands
\* parses to the matching node, lhs the parse of the first operand and rhs
\* of the second; (if c l r) parses to If{parse(c), parse(l), parse(r)};
\* "(+ 4 5)" and "(if (= 5 5) 1 0)" parse to the nodes written out here.
C5_ParseKeepsOperandOrder ==
    (Parsed /\ IsList(item)) =>
        LET l == item.l
            op == HeadSymbol(item)
        IN  /\ (op \in DOMAIN NodeOf /\ Len(l) = 3 /\ AllParse(Tail(l))) =>
                    ast = [tag |-> "Ok",
                           exp |-> [k |-> NodeOf[op],
                                    lhs |-> parse(l[2]).exp,
                                    rhs |-> parse(l[3]).exp]]
            /\ (op = "if" /\ Len(l) = 4 /\ AllParse(Tail(l))) =>
                    ast = [tag |-> "Ok",
                           exp |-> [k |-> "If",
                                    cond |-> parse(l[2]).exp,
                                    lhs |-> parse(l[3]).exp,
                                    rhs |-> parse(l[4]).exp]]
            /\ (item = L3(AtomS("+"), AtomI(4), AtomI(5))) =>
                    ast.exp = [k |-> "Add", lhs |-> [k |-> "Int", i |-> 4],
                               rhs |-> [k |-> "Int", i |-> 5]]
            /\ (item = IfEqFive) => ast.exp = IfEqFiveExp
C5_Witness ==
    /\ Parsed
    /\ item = IfEqFive
    /\ ast = POk(IfEqFiveExp)

\* C6: ((lambda x (lambda y (+ x y))) 3) 4 evaluates to Int(7).
C6_CurriedApplication ==
    (Done /\ item = Curried) => result = Ok(VInt(7))

\* C7: Unbox(Box(Int(5))) evaluates to Int(5).
C7_UnboxOfBox ==
    (Done /\ ast.exp = Unary("Unbox", BoxFive)) => result = Ok(VInt(5))

\* C8: no S-expression makes the AST builder return
\* ParseError::NotImplemented and no Exp and environment make the evaluator
\* return InterpError::NotImplemented.
C8_NotImplementedUnreachable ==
    /\ Parsed => ast # PErr(ParseError_NotImplemented)
    /\ Done => ~(result.tag = "Err" /\ result.err.ierr = "NotImplemented")

IsLet ==
    /\ Parsed
    /\ HeadSymbol(item) = "let"
    /\ Len(item.l) = 3
    /\ IsList(item.l[2])
    /\ Len(item.l[2].l) = 1
    /\ IsList(item.l[2].l[1])
    /\ Len(item.l[2].l[1].l) = 2
    /\ item.l[2].l[1].l[1].t = "S"
    /\ parse(item.l[2].l[1].l[2]).tag = "Ok"
    /\ parse(item.l[3]).tag = "Ok"

\* C9: (let ((x v)) body), v and body parsing, parses to
\* App{func: Lambda{param: x, body: parse(body)}, arg: parse(v)}.
C9_LetDesugars ==
    IsLet =>
        ast = POk(App(Lambda(item.l[2].l[1].l[1].as, parse(item.l[3]).exp),
                      parse(item.l[2].l[1].l[2]).exp))

\* The fixed number of operands of each built-in operator.
ArityOf(op) ==
    CASE op \in DOMAIN NodeOf \cup {"set", "lambda"} -> 2
      [] op = "if" -> 3
      [] op \in {"ref", "mut-ref", "box", "unbox", "deref", "display", "debug"} -> 1
      [] OTHER -> -1

\* C10: a list headed by a built-in operator whose number of operands is not
\* the operator's arity makes the AST builder return a ParseError.
C10_WrongArityIsParseError ==
    (/\ Parsed
     /\ ArityOf(HeadSymbol(item)) # -1
     /\ Len(item.l) - 1 # ArityOf(HeadSymbol(item))) =>
        ast.tag = "Err"

\* The outcomes of evaluating the operands of the node at the root, each on
\* its own under the caller's environment.
LhsRes == interp(ast.exp.lhs, env0).res
RhsRes == interp(ast.exp.rhs, env0).res
OperandsOk == LhsRes.tag = "Ok" /\ RhsRes.tag = "Ok"
\* f is the rational n / d.
IsRational(f, n, d) == f[1] * d = n * f[2]
\* The mathematical result of an arithmetic node on integers.
Exact(kind, a, b) ==
    CASE kind = "Add" -> a + b
      [] kind = "Sub" -> a - b
      [] kind = "Mult" -> a * b
\* The truth of a comparison node on two numbers a1/a2 and b1/b2 with
\* positive denominators.
Compares(kind, a1, a2, b1, b2) ==
    CASE kind = "Gt" -> a1 * b2 > b1 * a2
      [] kind = "Ge" -> a1 * b2 >= b1 * a2
      [] kind = "Lt" -> a1 * b2 < b1 * a2
      [] kind = "Le" -> a1 * b2 <= b1 * a2
\* What the integer operator of a node gives on a and b.  An i64 overflow
\* is the operator's own: a panic, or the wrapped value.
IntOperatorResult(kind, a, b) ==
    CASE kind \in {"Add", "Sub", "Mult"} ->
            IF InI64(Exact(kind, a, b)) THEN result = Ok(VInt(Exact(kind, a, b)))
            ELSE \/ result.tag = "Panic"
                 \/ /\ result.tag = "Ok" /\ result.val.k = "Int"
                    /\ result.val.i \in I64
                    /\ (result.val.i - Exact(kind, a, b)) % Pow2(IntBits) = 0
      [] kind = "Div" ->
            IF b = 0 THEN result = Err(DivisionByZero)
            ELSE IF a = MinInt /\ b = -1 THEN result.tag = "Panic"
            ELSE /\ result.tag = "Ok" /\ result.val.k = "Int"
                 /\ IsTruncatedQuotient(a, b, result.val.i)
      [] kind \in {"Gt", "Ge", "Lt", "Le"} ->
            result = Ok(VBool(Compares(kind, a, 1, b, 1)))
\* What the float operator of a node gives on a and b.
FloatOperatorResult(kind, a, b) ==
    CASE kind \in {"Add", "Sub"} ->
            /\ result.tag = "Ok" /\ result.val.k = "Float"
            /\ IsRational(result.val.f,
                          IF kind = "Add" THEN a[1] * b[2] + b[1] * a[2]
                          ELSE a[1] * b[2] - b[1] * a[2],
                          a[2] * b[2])
      [] kind = "Mult" ->
            /\ result.tag = "Ok" /\ result.val.k = "Float"
            /\ IsRational(result.val.f, a[1] * b[1], a[2] * b[2])
      [] kind = "Div" ->
            IF b[1] = 0 THEN result = Err(DivisionByZero)
            ELSE /\ result.tag = "Ok" /\ result.val.k = "Float"
                 /\ IsRational(result.val.f, a[1] * b[2], a[2] * b[1])
      [] kind \in {"Gt", "Ge", "Lt", "Le"} ->
            result = Ok(VBool(Compares(kind, a[1], a[2], b[1], b[2])))
IsNumericNode ==
    Done /\ ast.exp.k \in {"Add", "Sub", "Mult", "Div", "Gt", "Ge", "Lt", "Le"}

\* C11: for Add, Sub, Mult, Div, Gt, Ge, Lt and Le with both operands
\* evaluated, (Int, Int) gives the integer operator's result, (Float,
\* Float) the float operator's, one Int with one Float IncompatibleTypes,
\* and any operand that is not a number NotANumber; a comparison's value
\* is a Bool.
C11_OperandTypeDispatch ==
    (IsNumericNode /\ OperandsOk) =>
        LET l == LhsRes.val
            r == RhsRes.val
        IN  CASE l.k = "Int" /\ r.k = "Int" -> IntOperatorResult(ast.exp.k, l.i, r.i)
              [] l.k = "Float" /\ r.k = "Float" -> FloatOperatorResult(ast.exp.k, l.f, r.f)
              [] {l.k, r.k} = {"Int", "Float"} -> result = Err(IncompatibleTypes)
              [] OTHER -> result = Err(NotANumber)
C11_Witness ==
    /\ IsNumericNode
    /\ ast.exp = Binary("Ge", ExpFloat(Half), Id("x"))
    /\ env0 = {<<"x", VInt(1)>>, <<"b", VBool(TRUE)>>}
    /\ result = Err(IncompatibleTypes)

LhsOut == interp(ast.exp.lhs, env0).out
RhsOut == interp(ast.exp.rhs, env0).out
IsBinaryNode ==
    Done /\ ast.exp.k \in {"Add", "Sub", "Mult", "Div", "Eq", "Gt", "Ge", "Lt", "Le"}

\* C12: a binary arithmetic or comparison node evaluates lhs completely, its
\* output included, before rhs; a failing lhs is the node's result and rhs
\* is not evaluated (no output of it); a failure of rhs alone is the result,
\* after the output of lhs; the operator's own check comes after both.
C12_LeftBeforeRightFailFast ==
    IsBinaryNode =>
        /\ LhsRes.tag # "Ok" => (result = LhsRes /\ stdout = LhsOut)
        /\ (LhsRes.tag = "Ok" /\ RhsRes.tag # "Ok") =>
                (result = RhsRes /\ stdout = LhsOut \o RhsOut)
        /\ OperandsOk =>
                /\ stdout = LhsOut \o RhsOut
                /\ result = BinaryOp(ast.exp.k, LhsRes.val, RhsRes.val)
        /\ ast.exp = Binary("Sub", Unary("Display", ExpInt(1)), Unary("Display", ExpInt(2))) =>
                /\ stdout = <<DisplayFmt(VInt(1)), DisplayFmt(VInt(2))>>
                /\ result = Ok(VInt(-1))
C12_Witness ==
    /\ IsBinaryNode
    /\ ast.exp = Binary("Add", Unary("Display", ExpInt(1)), Id("z"))
    /\ result = Err(SymbolNotFound("z"))
    /\ stdout = <<DisplayFmt(VInt(1))>>

CondRes == interp(ast.exp.cond, env0).res
CondOut == interp(ast.exp.cond, env0).out
IsIfNode == Done /\ ast.exp.k = "If"
CondIsBool == CondRes.tag = "Ok" /\ CondRes.val.k = "Bool"
OneOrDivByZero == If(ExpBool(TRUE), ExpInt(1), Binary("Div", ExpInt(1), ExpInt(0)))

\* C13: If evaluates cond first; a condition value that is not a Bool fails
\* with ConditionNotBoolean and no branch is evaluated; on a Bool both
\* branches are evaluated, lhs before rhs, whatever the condition, so the
\* error or output of the branch not selected occurs too:
\* If(Bool(true), Int(1), Div(Int(1), Int(0))) fails with DivisionByZero.
C13_IfEvaluatesBothBranches ==
    IsIfNode =>
        /\ CondRes.tag # "Ok" => (result = CondRes /\ stdout = CondOut)
        /\ (CondRes.tag = "Ok" /\ CondRes.val.k # "Bool") =>
                (result = Err(ConditionNotBoolean) /\ stdout = CondOut)
        /\ (CondIsBool /\ LhsRes.tag # "Ok") =>
                (result = LhsRes /\ stdout = CondOut \o LhsOut)
        /\ (CondIsBool /\ LhsRes.tag = "Ok" /\ RhsRes.tag # "Ok") =>
                (result = RhsRes /\ stdout = CondOut \o LhsOut \o RhsOut)
        /\ (CondIsBool /\ OperandsOk) => stdout = CondOut \o LhsOut \o RhsOut
        /\ ast.exp = OneOrDivByZero => result = Err(DivisionByZero)
C13_Witness ==
    /\ IsIfNode
    /\ ast.exp = OneOrDivByZero
    /\ result = Err(DivisionByZero)

C15_EveryFailureIsAnErrorValue ==
    Done => result.tag \in {"Ok", "Err"}

Names == {"x", "y", "b", "f", "r", "m", "z"}

\* C16: after interp returns, with a value or an error, the environment
\* binds the same identifiers to the same values as before the call, so
\* looking up any name gives the same result before and after.
C16_EnvUnchanged ==
    Done =>
        /\ env = env0
        /\ \A n \in Names : EnvGet(env, n) = EnvGet(env0, n)
C16_Witness ==
    /\ Done
    /\ ast.exp = Binary("Add", Id("y"), Id("x"))
    /\ EnvGet(env0, "y") = [some |-> TRUE, v |-> Moved]
    /\ result = Err(NotANumber)
    /\ env = env0

====
